---- MODULE Spec2Model ----
(***************************************************************************)
(* Model of Client::prepare_event / Client::capture_event of               *)
(* src/src/client.rs: scope merge, platform correction, backtrace          *)
(* trimming and in_app / package classification of stack frames.           *)
(*                                                                         *)
(* Rust values are encoded as follows:                                     *)
(*   Option<T>   a sequence of length 0 (None) or 1 (Some(x) = <<x>>)      *)
(*   String      a TLA+ string (Len and SubSeq work on its characters)     *)
(*   Vec<T>      a sequence                                                *)
(*   Map<K, V>   a function whose domain is the set of keys present        *)
(* prepare_event is one synchronous call; pc, exc and frm are its position *)
(* (statement, index of the exception loop, index of the frame loop).      *)
(***************************************************************************)
EXTENDS Integers, Sequences, FiniteSets, TLC

VARIABLES event, scope, options, pc, exc, frm, any_in_app, event0

vars == <<event, scope, options, pc, exc, frm, any_in_app, event0>>

----------------------------------------------------------------------------
(* Option<T> *)

None == <<>>

Some(x) == <<x>>

is_some(o) == Len(o) = 1

is_none(o) == Len(o) = 0

----------------------------------------------------------------------------
(* Bounds of the explored inputs *)

MaxFrames == 3

MaxTrimFrames == 5

MaxExc == 2

----------------------------------------------------------------------------
(* backtrace_support tables (imported at client.rs:13) *)

WELL_KNOWN_BORDER_FRAMES == <<"std::rt::lang_start">>

WELL_KNOWN_SYS_MODULES == <<"std::", "core::">>

----------------------------------------------------------------------------
(* String and Vec helpers *)

\* str::starts_with
starts_with(s, m) == Len(m) <= Len(s) /\ SubSeq(s, 1, Len(m)) = m

\* Vec::contains / slice::contains
contains(v, x) == \E i \in 1..Len(v) : v[i] = x

\* Least element of a non-empty set of naturals
Min(S) == CHOOSE x \in S : \A y \in S : x <= y

\* CRATE_RE = ^([^:]+?):: ; captures(func).get(1) as Option<String>.
\* The group holds no ':' and is followed by "::", so it ends just before
\* the first ':' of the string, which must not be the first character.
CRATE_RE(func) ==
    LET colons == {i \in 1..Len(func) : SubSeq(func, i, i) = ":"}
    IN  IF colons = {} THEN None
        ELSE LET c == Min(colons)
             IN  IF c >= 2 /\ c + 1 <= Len(func) /\ SubSeq(func, c + 1, c + 1) = ":"
                 THEN Some(SubSeq(func, 1, c - 1))
                 ELSE None

----------------------------------------------------------------------------
(* Scope merge, client.rs:198-222 *)

\* breadcrumbs.extend(scope.breadcrumbs)
MergeBreadcrumbs(ev_crumbs, sc_crumbs) ==
    IF sc_crumbs # <<>> THEN ev_crumbs \o sc_crumbs ELSE ev_crumbs

\* An always-overwriting user merge (scope wins)
MergeUserScopeWins(ev_user, sc_user) ==
    IF is_some(sc_user) THEN sc_user ELSE ev_user

\* event.user is set from the scope only when the event has none
MergeUser(ev_user, sc_user) ==
    IF is_none(ev_user)
    THEN IF is_some(sc_user) THEN sc_user ELSE ev_user
    ELSE ev_user

\* A map extend that keeps the values already present
ExtendKeepExisting(m, other) ==
    [k \in DOMAIN m \cup DOMAIN other |-> IF k \in DOMAIN m THEN m[k] ELSE other[k]]

\* Map::extend: every (k, v) of other is inserted, replacing the value of k
Extend(m, other) ==
    [k \in DOMAIN m \cup DOMAIN other |-> IF k \in DOMAIN other THEN other[k] ELSE m[k]]

\* if let Some(ref extra) = scope.extra { event.extra.extend(..) }; same for tags
MergeMap(ev_map, sc_map) ==
    IF is_some(sc_map) THEN Extend(ev_map, sc_map[1]) ELSE ev_map

----------------------------------------------------------------------------
(* Platform correction, client.rs:224-226 *)

FixPlatformAlways(platform) == "native"

FixPlatform(platform) == IF platform = "other" THEN "native" ELSE platform

----------------------------------------------------------------------------
(* Backtrace trimming, client.rs:231-243 *)

\* The closure given to position()
IsBorderFrame(frame, opts) ==
    IF is_some(frame.function)
    THEN \/ contains(WELL_KNOWN_BORDER_FRAMES, frame.function[1])
         \/ contains(opts.extra_border_frames, frame.function[1])
    ELSE FALSE

\* frames.iter().rev().position(..): the zero-based index, counted from the
\* end, of the first frame met that satisfies the closure
RevPosition(frames, opts) ==
    LET n == Len(frames)
        hits == {p \in 0..(n - 1) : IsBorderFrame(frames[n - p], opts)}
    IN  IF hits = {} THEN None ELSE Some(Min(hits))

\* Trimming that scans from the front (position() without rev())
TrimFramesForward(frames, opts) ==
    LET n == Len(frames)
        hits == {p \in 0..(n - 1) : IsBorderFrame(frames[p + 1], opts)}
    IN  IF opts.trim_backtraces /\ hits # {}
        THEN SubSeq(frames, 1, n - Min(hits) - 1)
        ELSE frames

\* client.rs:231-243
TrimFrames(frames, opts) ==
    LET cutoff == RevPosition(frames, opts)
    IN  IF opts.trim_backtraces /\ is_some(cutoff)
        THEN SubSeq(frames, 1, Len(frames) - cutoff[1] - 1)
        ELSE frames

----------------------------------------------------------------------------
(* Frame classification, client.rs:246-309 *)

\* for m in prefixes { if func_name.starts_with(m) { ..; break } }
AnyPrefix(prefixes, func_name) ==
    \E i \in 1..Len(prefixes) : starts_with(func_name, prefixes[i])

\* Package inference that overwrites a package already present
InferPackageAlways(frame) == CRATE_RE(frame.function[1])

\* client.rs:254-259, for a frame that has a function name
InferPackage(frame) ==
    IF is_none(frame.package) THEN CRATE_RE(frame.function[1]) ELSE frame.package

\* The prefix rules with include tested before exclude
MatchInAppIncludeFirst(func_name, opts) ==
    IF AnyPrefix(opts.in_app_include, func_name)
    THEN [in_app |-> Some(TRUE), sets_any |-> TRUE]
    ELSE IF AnyPrefix(opts.in_app_exclude, func_name)
    THEN [in_app |-> Some(FALSE), sets_any |-> FALSE]
    ELSE IF AnyPrefix(WELL_KNOWN_SYS_MODULES, func_name)
    THEN [in_app |-> Some(FALSE), sets_any |-> FALSE]
    ELSE [in_app |-> None, sets_any |-> FALSE]

\* client.rs:272-300, for a frame whose in_app is None: the new in_app and
\* whether any_in_app is set
MatchInApp(func_name, opts) ==
    IF AnyPrefix(opts.in_app_exclude, func_name)
    THEN [in_app |-> Some(FALSE), sets_any |-> FALSE]
    ELSE IF AnyPrefix(opts.in_app_include, func_name)
    THEN [in_app |-> Some(TRUE), sets_any |-> TRUE]
    ELSE IF AnyPrefix(WELL_KNOWN_SYS_MODULES, func_name)
    THEN [in_app |-> Some(FALSE), sets_any |-> FALSE]
    ELSE [in_app |-> None, sets_any |-> FALSE]

\* The flag decision without the early continue on an explicit flag
DecideInAppIgnoreExplicit(frame, opts) ==
    LET r == MatchInApp(frame.function[1], opts)
    IN  IF is_some(r.in_app) THEN r
        ELSE [in_app |-> frame.in_app, sets_any |-> frame.in_app = Some(TRUE)]

\* client.rs:261-300: match frame.in_app { Some(true) .. Some(false) .. None }
DecideInApp(frame, opts) ==
    IF frame.in_app = Some(TRUE) THEN [in_app |-> frame.in_app, sets_any |-> TRUE]
    ELSE IF frame.in_app = Some(FALSE) THEN [in_app |-> frame.in_app, sets_any |-> FALSE]
    ELSE MatchInApp(frame.function[1], opts)

\* One iteration of the loop at client.rs:247-301
ClassifyOne(frame, any, opts) ==
    IF is_none(frame.function)
    THEN [frame |-> frame, any_in_app |-> any]
    ELSE LET d == DecideInApp(frame, opts)
         IN  [frame |-> [frame EXCEPT !.package = InferPackage(frame),
                                      !.in_app = d.in_app],
              any_in_app |-> any \/ d.sets_any]

\* A fallback pass that skips frames without a function name
FallbackFramesNamedOnly(frames, any) ==
    IF ~any
    THEN [j \in 1..Len(frames) |->
            IF is_none(frames[j].in_app) /\ is_some(frames[j].function)
            THEN [frames[j] EXCEPT !.in_app = Some(TRUE)]
            ELSE frames[j]]
    ELSE frames

\* A fallback pass that is never taken
FallbackFramesNever(frames, any) == frames

\* client.rs:303-309
FallbackFrames(frames, any) ==
    IF ~any
    THEN [j \in 1..Len(frames) |->
            IF is_none(frames[j].in_app)
            THEN [frames[j] EXCEPT !.in_app = Some(TRUE)]
            ELSE frames[j]]
    ELSE frames

----------------------------------------------------------------------------
(* Explored inputs *)

Frame(f, p, a) == [function |-> f, package |-> p, in_app |-> a]

\* All Vec<Frame> of at most n frames drawn from F
Traces(F, n) == UNION {[1..k -> F] : k \in 0..n}

\* An exception with a stacktrace of the given frames / without a stacktrace
ExcWith(frames) == [stacktrace |-> Some([frames |-> frames])]

ExcBare == [stacktrace |-> None]

\* ClientOptions::default(), client.rs:39-49
DefaultOptions ==
    [in_app_include |-> <<>>, in_app_exclude |-> <<>>, extra_border_frames |-> <<>>,
     max_breadcrumbs |-> 100, trim_backtraces |-> TRUE]

\* Options that vary the in_app prefix lists
ClassifyOptions ==
    {[DefaultOptions EXCEPT !.in_app_include = inc, !.in_app_exclude = exl] :
        inc \in {<<>>, <<"lib::", "app::">>}, exl \in {<<>>, <<"app::m">>}}

\* Options that vary trimming
TrimOptions ==
    {[DefaultOptions EXCEPT !.trim_backtraces = t, !.extra_border_frames = b] :
        t \in BOOLEAN, b \in {<<>>, <<"lib::run">>}}

Flags == {None, Some(TRUE), Some(FALSE)}

ClassifyFrames ==
    {Frame(f, None, a) :
        f \in {None, Some("app::main"), Some("main"), Some("core::fmt"),
               Some("std::rt::lang_start")},
        a \in Flags}

TrimInputFrames ==
    {Frame(f, None, None) :
        f \in {None, Some("app::main"), Some("lib::run"), Some("main"),
               Some("std::rt::lang_start")}}

PackageFrames ==
    {Frame(Some(f), p, a) :
        f \in {"app::main", "main", "a:b::c", "::x", "x::", "a:::b", ":", "", "core::fmt"},
        p \in {None, Some("pkg")},
        a \in Flags}

MultiTraces ==
    {<<>>,
     <<Frame(Some("main"), None, None)>>,
     <<Frame(Some("app::main"), None, Some(TRUE))>>,
     <<Frame(Some("app::main"), None, None), Frame(None, None, None)>>,
     <<Frame(Some("app::main"), None, None), Frame(Some("std::rt::lang_start"), None, None)>>,
     <<Frame(Some("main"), None, None), Frame(Some("std::rt::lang_start"), None, None),
       Frame(Some("app::main"), None, Some(TRUE))>>}

MultiExceptions ==
    UNION {[1..k -> {ExcBare} \cup {ExcWith(t) : t \in MultiTraces}] : k \in 0..MaxExc}

Keys == {"k1", "k2"}

Vals == {"v1", "v2"}

Maps == UNION {[D -> Vals] : D \in SUBSET Keys}

Users == {None, Some("u1"), Some("u2")}

Platforms == {"other", "native", "python"}

BaseEvent ==
    [platform |-> "other", user |-> None, extra |-> <<>>, tags |-> <<>>,
     breadcrumbs |-> <<>>, exceptions |-> <<>>]

\* Events and scopes that vary what the scope merge and the platform
\* correction read
ScopeEvents ==
    {[BaseEvent EXCEPT !.platform = p, !.user = u, !.extra = m, !.tags = t,
                       !.breadcrumbs = b,
                       !.exceptions = <<ExcWith(<<Frame(Some("app::main"), None, None)>>)>>] :
        p \in Platforms, u \in Users, m \in Maps,
        t \in {<<>>, [k \in Keys |-> "v1"]}, b \in {<<>>, <<"b0">>}}

Scopes ==
    {None} \cup
    {Some([user |-> u, extra |-> x, tags |-> t, breadcrumbs |-> b]) :
        u \in Users,
        x \in {None} \cup {Some(m) : m \in Maps},
        t \in {None, Some(<<>>), Some([k \in {"k1"} |-> "v2"])},
        b \in {<<>>, <<"b1">>}}

----------------------------------------------------------------------------
(* State machine *)

InitClassify ==
    /\ \E t \in Traces(ClassifyFrames, MaxFrames) :
          event = [BaseEvent EXCEPT !.exceptions = <<ExcWith(t)>>]
    /\ options \in ClassifyOptions
    /\ scope = None

InitTrim ==
    /\ \E t \in Traces(TrimInputFrames, MaxTrimFrames) :
          event = [BaseEvent EXCEPT !.exceptions = <<ExcWith(t)>>]
    /\ options \in TrimOptions
    /\ scope = None

InitPackage ==
    /\ \E f \in PackageFrames :
          event = [BaseEvent EXCEPT !.exceptions = <<ExcWith(<<f>>)>>]
    /\ options = DefaultOptions
    /\ scope = None

InitMulti ==
    /\ \E es \in MultiExceptions : event = [BaseEvent EXCEPT !.exceptions = es]
    /\ options \in ClassifyOptions
    /\ scope = None

InitScope ==
    /\ event \in ScopeEvents
    /\ scope \in Scopes
    /\ options = DefaultOptions

Init ==
    /\ \/ InitClassify
       \/ InitTrim
       \/ InitPackage
       \/ InitMulti
       \/ InitScope
    /\ event0 = event
    /\ pc = "scope"
    /\ exc = 1
    /\ frm = 1
    /\ any_in_app = FALSE

\* Frames of the stacktrace of the exception being processed
CurFrames == event.exceptions[exc].stacktrace[1].frames

\* client.rs:198-222
MergeScope ==
    /\ pc = "scope"
    /\ event' = IF is_some(scope)
                THEN [event EXCEPT
                        !.breadcrumbs = MergeBreadcrumbs(@, scope[1].breadcrumbs),
                        !.user = MergeUser(@, scope[1].user),
                        !.extra = MergeMap(@, scope[1].extra),
                        !.tags = MergeMap(@, scope[1].tags)]
                ELSE event
    /\ pc' = "platform"
    /\ UNCHANGED <<scope, options, exc, frm, any_in_app, event0>>

\* client.rs:224-226
CorrectPlatform ==
    /\ pc = "platform"
    /\ event' = [event EXCEPT !.platform = FixPlatform(@)]
    /\ pc' = "exceptions"
    /\ UNCHANGED <<scope, options, exc, frm, any_in_app, event0>>

\* client.rs:228-229: the head of the loop over event.exceptions
NextException ==
    /\ pc = "exceptions"
    /\ exc <= Len(event.exceptions)
    /\ IF is_some(event.exceptions[exc].stacktrace)
       THEN pc' = "trim" /\ exc' = exc
       ELSE pc' = "exceptions" /\ exc' = exc + 1
    /\ UNCHANGED <<event, scope, options, frm, any_in_app, event0>>

\* Trimming with any_in_app computed from the frames as they are before
\* the truncation (the priming of in_app run ahead of the trimming)
TrimAfterPriming ==
    /\ pc = "trim"
    /\ event' = [event EXCEPT !.exceptions[exc].stacktrace[1].frames =
                                  TrimFrames(@, options)]
    /\ any_in_app' = \E j \in 1..Len(CurFrames) :
                          /\ is_some(CurFrames[j].function)
                          /\ DecideInApp(CurFrames[j], options).sets_any
    /\ frm' = 1
    /\ pc' = "classify"
    /\ UNCHANGED <<scope, options, exc, event0>>

\* client.rs:231-246
Trim ==
    /\ pc = "trim"
    /\ event' = [event EXCEPT !.exceptions[exc].stacktrace[1].frames =
                                  TrimFrames(@, options)]
    /\ any_in_app' = FALSE
    /\ frm' = 1
    /\ pc' = "classify"
    /\ UNCHANGED <<scope, options, exc, event0>>

\* client.rs:247-301, one frame
ClassifyFrame ==
    /\ pc = "classify"
    /\ frm <= Len(CurFrames)
    /\ LET r == ClassifyOne(CurFrames[frm], any_in_app, options)
       IN  /\ event' = [event EXCEPT !.exceptions[exc].stacktrace[1].frames[frm] = r.frame]
           /\ any_in_app' = r.any_in_app
    /\ frm' = frm + 1
    /\ UNCHANGED <<scope, options, pc, exc, event0>>

\* client.rs:303-310
Fallback ==
    /\ pc = "classify"
    /\ frm > Len(CurFrames)
    /\ event' = [event EXCEPT !.exceptions[exc].stacktrace[1].frames =
                                  FallbackFrames(@, any_in_app)]
    /\ exc' = exc + 1
    /\ pc' = "exceptions"
    /\ UNCHANGED <<scope, options, frm, any_in_app, event0>>

\* client.rs:325-328: prepare_event has returned, the event is handed over
SendEvent ==
    /\ pc = "exceptions"
    /\ exc > Len(event.exceptions)
    /\ pc' = "done"
    /\ UNCHANGED <<event, scope, options, exc, frm, any_in_app, event0>>

Next ==
    \/ MergeScope
    \/ CorrectPlatform
    \/ NextException
    \/ Trim
    \/ ClassifyFrame
    \/ Fallback
    \/ SendEvent

Spec == Init /\ [][Next]_vars

----------------------------------------------------------------------------
(* Vocabulary of the properties *)

\* Exception i carries a stacktrace
HasTrace(i) == is_some(event0.exceptions[i].stacktrace)

\* Frames of exception i as given to prepare_event, and as they are now
OrigFrames(i) == event0.exceptions[i].stacktrace[1].frames

NowFrames(i) == event.exceptions[i].stacktrace[1].frames

\* Exception i has been trimmed / has been trimmed and fully classified
Trimmed(i) == HasTrace(i) /\ (i < exc \/ (i = exc /\ pc = "classify"))

Classified(i) == HasTrace(i) /\ i < exc

Elems(v) == {v[i] : i \in 1..Len(v)}

Max(S) == CHOOSE x \in S : \A y \in S : y <= x

\* The function name is a built-in border marker or an extra border frame
BorderName(name) ==
    name \in Elems(WELL_KNOWN_BORDER_FRAMES) \cup Elems(options.extra_border_frames)

\* Indices of the frames of a stacktrace whose function name is a border
BorderIdx(frames) ==
    {k \in 1..Len(frames) : is_some(frames[k].function) /\ BorderName(frames[k].function[1])}

ExcludeMatch(name) == \E m \in Elems(options.in_app_exclude) : starts_with(name, m)

IncludeMatch(name) == \E m \in Elems(options.in_app_include) : starts_with(name, m)

SysMatch(name) == \E m \in Elems(WELL_KNOWN_SYS_MODULES) : starts_with(name, m)

\* The frame matches some exclude, include or system-module prefix
MatchesRule(frame) ==
    /\ is_some(frame.function)
    /\ \/ ExcludeMatch(frame.function[1])
       \/ IncludeMatch(frame.function[1])
       \/ SysMatch(frame.function[1])

\* The frame has a function name and in_app = Some(true)
NamedInApp(frame) == is_some(frame.function) /\ frame.in_app = Some(TRUE)

\* The frame, as given, is one that classification counts as application
\* code: explicitly flagged, or unset and included without being excluded
CountsInApp(frame) ==
    /\ is_some(frame.function)
    /\ \/ frame.in_app = Some(TRUE)
       \/ /\ frame.in_app = None
          /\ IncludeMatch(frame.function[1])
          /\ ~ExcludeMatch(frame.function[1])

----------------------------------------------------------------------------
(* C1 *)

\* C1: with trim_backtraces, a trimmed stacktrace is the original cut just
\* before its last border frame (found at distance p from the end, the new
\* length is len - p - 1, the kept frames are the first ones in order), and
\* is the original when no frame is a border frame. Right after trimming the
\* frames are exactly that prefix; later only their package and in_app change.
C1_TrimTruncates ==
    \A i \in 1..Len(event0.exceptions) :
        (Trimmed(i) /\ options.trim_backtraces) =>
            LET orig == OrigFrames(i)
                now == NowFrames(i)
                B == BorderIdx(orig)
                p == Len(orig) - Max(B)
                keep == IF B = {} THEN Len(orig) ELSE Len(orig) - p - 1
            IN  /\ Len(now) = keep
                /\ \A j \in 1..keep : now[j].function = orig[j].function
                /\ (i = exc /\ frm = 1) => now = SubSeq(orig, 1, keep)

\* [A, B, MARKER, C, D] has just been trimmed to [A, B]
C1_Witness ==
    /\ pc = "classify" /\ frm = 1 /\ options.trim_backtraces
    /\ LET orig == OrigFrames(exc)
       IN  /\ Len(orig) = 5
           /\ BorderIdx(orig) = {3}
           /\ orig[1].function = Some("app::main")
           /\ orig[2].function = Some("main")
           /\ orig[4].function = Some("lib::run")
           /\ orig[5].function = None
           /\ CurFrames = <<orig[1], orig[2]>>

----------------------------------------------------------------------------
(* C2 *)

\* C2 as claimed: when no frame of a classified stacktrace matches an
\* exclude, include or system-module prefix, every frame has in_app = true.
C2_AsClaimed ==
    \A i \in 1..Len(event0.exceptions) :
        (Classified(i) /\ \A j \in 1..Len(NowFrames(i)) : ~MatchesRule(NowFrames(i)[j])) =>
            \A j \in 1..Len(NowFrames(i)) : NowFrames(i)[j].in_app = Some(TRUE)

\* C2 amended: when no frame of a classified stacktrace matches an exclude,
\* include or system-module prefix and no frame with a function name was
\* given with in_app = true, every frame given with an unset flag has
\* in_app = true and every frame given with an explicit flag keeps it.
C2_FallbackTotality ==
    \A i \in 1..Len(event0.exceptions) :
        LET orig == OrigFrames(i)
            now == NowFrames(i)
        IN  (/\ Classified(i)
             /\ \A j \in 1..Len(now) : ~MatchesRule(now[j])
             /\ \A j \in 1..Len(now) : ~NamedInApp(orig[j])) =>
                \A j \in 1..Len(now) :
                    now[j].in_app = IF orig[j].in_app = None THEN Some(TRUE)
                                    ELSE orig[j].in_app

\* A classified stacktrace without any match, where an unset flag became
\* true and an explicit false was kept
C2_Witness ==
    /\ pc = "done"
    /\ Len(event0.exceptions) = 1 /\ HasTrace(1)
    /\ LET orig == OrigFrames(1)
           now == NowFrames(1)
       IN  /\ Len(now) = 3
           /\ \A j \in 1..3 : ~MatchesRule(now[j]) /\ ~NamedInApp(orig[j])
           /\ orig[1].in_app = None /\ now[1].in_app = Some(TRUE)
           /\ is_some(orig[1].function)
           /\ orig[2].in_app = Some(FALSE) /\ now[2].in_app = Some(FALSE)
           /\ is_none(orig[3].function) /\ orig[3].in_app = None
           /\ now[3].in_app = Some(TRUE)

----------------------------------------------------------------------------
(* C3 *)

\* C3: classifying a frame whose flag is unset and whose function name
\* starts with an exclude prefix and with an include prefix sets its flag to
\* false and leaves any_in_app as it was.
C3_ExcludePrecedence ==
    [][(/\ pc = "classify" /\ frm <= Len(CurFrames)
        /\ is_some(CurFrames[frm].function)
        /\ CurFrames[frm].in_app = None
        /\ ExcludeMatch(CurFrames[frm].function[1])
        /\ IncludeMatch(CurFrames[frm].function[1]))
       => (/\ event'.exceptions[exc].stacktrace[1].frames[frm].in_app = Some(FALSE)
           /\ any_in_app' = any_in_app)]_vars

\* Such a frame has just been classified: flag false, any_in_app still false
C3_Witness ==
    /\ pc = "classify" /\ frm = 2
    /\ OrigFrames(exc)[1].in_app = None
    /\ is_some(CurFrames[1].function)
    /\ ExcludeMatch(CurFrames[1].function[1])
    /\ IncludeMatch(CurFrames[1].function[1])
    /\ CurFrames[1].in_app = Some(FALSE)
    /\ ~any_in_app

----------------------------------------------------------------------------
(* C4 *)

\* C4 as claimed: classifying a stacktrace whose frames all have an explicit
\* in_app flag changes no field of any frame, nor the order or the count.
C4_AsClaimed ==
    \A i \in 1..Len(event0.exceptions) :
        LET now == NowFrames(i)
            given == SubSeq(OrigFrames(i), 1, Len(now))
        IN  (Trimmed(i) /\ \A j \in 1..Len(given) : given[j].in_app # None) =>
                now = given

\* C4 amended: classifying a stacktrace whose frames all have an explicit
\* in_app flag changes no in_app flag, no function name, no package that is
\* set, and neither the order nor the count of the frames; the package of a
\* frame that has none stays unset when the frame has no function name and
\* otherwise becomes the text before the first "::" of the function name,
\* if that text is non-empty and holds no ':' (and stays unset if not).
C4_ExplicitFlagsKept ==
    \A i \in 1..Len(event0.exceptions) :
        LET now == NowFrames(i)
            given == SubSeq(OrigFrames(i), 1, Len(now))
        IN  (Classified(i) /\ \A j \in 1..Len(given) : given[j].in_app # None) =>
                \A j \in 1..Len(given) :
                    /\ now[j].in_app = given[j].in_app
                    /\ now[j].function = given[j].function
                    /\ is_some(given[j].package) => now[j].package = given[j].package
                    /\ is_none(given[j].function) => now[j].package = given[j].package
                    /\ (is_none(given[j].package) /\ is_some(now[j].package)) =>
                          LET f == given[j].function[1]
                              c == now[j].package[1]
                          IN  /\ Len(c) >= 1
                              /\ starts_with(f, c \o "::")
                              /\ \A k \in 1..Len(c) : SubSeq(c, k, k) # ":"
                    /\ (/\ is_none(given[j].package) /\ is_some(given[j].function)
                        /\ is_none(now[j].package)) =>
                          LET f == given[j].function[1]
                          IN  ~\E n \in 1..Len(f) :
                                 /\ starts_with(SubSeq(f, n + 1, Len(f)), "::")
                                 /\ \A k \in 1..n : SubSeq(f, k, k) # ":"

\* A classified frame given with an explicit flag and no package: the flag
\* is kept and the package is the crate prefix of the function name
C4_Witness ==
    /\ pc = "done"
    /\ Len(event0.exceptions) = 1 /\ HasTrace(1)
    /\ OrigFrames(1) = <<Frame(Some("app::main"), None, Some(FALSE))>>
    /\ NowFrames(1) = <<Frame(Some("app::main"), Some("app"), Some(FALSE))>>

----------------------------------------------------------------------------
(* C5 *)

\* C5: once a scope has been merged, the user of the event is the user the
\* event came with if it had one, and the user of the scope (possibly none)
\* if it had none.
C5_UserMerge ==
    (pc # "scope" /\ is_some(scope)) =>
        event.user = IF is_some(event0.user) THEN event0.user ELSE scope[1].user

\* An event and a scope with different users: the event's user is kept
C5_Witness ==
    /\ pc = "done" /\ is_some(scope)
    /\ event0.user = Some("u1") /\ scope[1].user = Some("u2")
    /\ event.user = Some("u1")

----------------------------------------------------------------------------
(* C6 *)

\* What C6 says of one map of the event: the map it came with, the map of
\* the scope (an Option) and the map after the merge
MergedAsClaimed(before, sc_map, after) ==
    LET sm == IF is_some(sc_map) THEN sc_map[1] ELSE <<>>
    IN  /\ \A k \in DOMAIN sm : k \in DOMAIN after /\ after[k] = sm[k]
        /\ \A k \in DOMAIN before \ DOMAIN sm : k \in DOMAIN after /\ after[k] = before[k]
        /\ DOMAIN before \subseteq DOMAIN after

\* C6: once a scope has been merged, every key of the scope's extra (tags)
\* is in the event's extra (tags) with the scope's value, every other key of
\* the event has kept its value, and no key is gone.
C6_MapMerge ==
    (pc # "scope" /\ is_some(scope)) =>
        /\ MergedAsClaimed(event0.extra, scope[1].extra, event.extra)
        /\ MergedAsClaimed(event0.tags, scope[1].tags, event.tags)

\* The scope's value replaced the event's for k1 in extra and in tags, and
\* k2, which the scope does not have, kept its value
C6_Witness ==
    /\ pc = "done" /\ is_some(scope)
    /\ event0.extra = [k \in Keys |-> "v1"]
    /\ scope[1].extra = Some([k \in {"k1"} |-> "v2"])
    /\ event.extra = [k \in Keys |-> IF k = "k1" THEN "v2" ELSE "v1"]
    /\ event0.tags = [k \in Keys |-> "v1"]
    /\ scope[1].tags = Some([k \in {"k1"} |-> "v2"])
    /\ event.tags = [k \in Keys |-> IF k = "k1" THEN "v2" ELSE "v1"]

----------------------------------------------------------------------------
(* C7 *)

\* C7: after the platform correction, with or without a scope, the platform
\* is "native" if it was "other" and is what it was otherwise.
C7_PlatformCorrection ==
    pc \notin {"scope", "platform"} =>
        event.platform = IF event0.platform = "other" THEN "native" ELSE event0.platform

\* A prepared event with a scope whose platform was neither "other" nor
\* "native" and is unchanged
C7_Witness ==
    /\ pc = "done" /\ is_some(scope)
    /\ event0.platform = "python"
    /\ event.platform = "python"

----------------------------------------------------------------------------
(* C8 *)

\* The stacktrace of the end-to-end scenario and its expected result
ScenarioTrace ==
    <<Frame(Some("app::main"), None, None), Frame(Some("std::rt::lang_start"), None, None)>>

ScenarioResult == <<Frame(Some("app::main"), Some("app"), Some(TRUE))>>

\* C8: classification runs on the frames that survive trimming. While the
\* frames of an exception are visited, any_in_app is true exactly when one
\* of the surviving frames already visited has a function name and in_app =
\* true; when the visit ends with no surviving frame that counts as
\* application code, the fallback leaves no surviving flag unset, whatever
\* the discarded frames were; and the scenario stacktrace, under the default
\* options, ends as the single frame app::main, package "app", in_app = true.
C8_TrimBeforeClassify ==
    \A i \in 1..Len(event0.exceptions) :
        HasTrace(i) =>
            LET orig == OrigFrames(i)
                now == NowFrames(i)
            IN  /\ (i = exc /\ pc = "classify") =>
                      /\ frm <= Len(now) + 1
                      /\ any_in_app <=> \E j \in 1..(frm - 1) : NamedInApp(now[j])
                /\ (Classified(i) /\ \A j \in 1..Len(now) : ~CountsInApp(orig[j])) =>
                      \A j \in 1..Len(now) : now[j].in_app # None
                /\ (Classified(i) /\ orig = ScenarioTrace /\ options = DefaultOptions) =>
                      now = ScenarioResult

\* A prepared event with two exceptions: the scenario stacktrace, and a
\* stacktrace whose in_app = true frame was discarded with the border frame
\* and whose surviving unset frame became in_app = true by the fallback
C8_Witness ==
    /\ pc = "done" /\ options = DefaultOptions
    /\ Len(event0.exceptions) = 2 /\ HasTrace(1) /\ HasTrace(2)
    /\ OrigFrames(1) = ScenarioTrace
    /\ NowFrames(1) = ScenarioResult
    /\ OrigFrames(2) = <<Frame(Some("main"), None, None),
                         Frame(Some("std::rt::lang_start"), None, None),
                         Frame(Some("app::main"), None, Some(TRUE))>>
    /\ NowFrames(2) = <<Frame(Some("main"), None, Some(TRUE))>>

----------------------------------------------------------------------------
(* C9 *)

\* C9: no step of the classification of a stacktrace changes the flag of a
\* frame that has a function name and an explicit in_app flag, and visiting
\* such a frame sets any_in_app exactly when its flag is true (any_in_app
\* becomes true then, and is left as it was when the flag is false).
C9_ExplicitFlagKept ==
    [][pc = "classify" =>
        /\ \A j \in 1..Len(CurFrames) :
              (is_some(CurFrames[j].function) /\ CurFrames[j].in_app # None) =>
                  event'.exceptions[exc].stacktrace[1].frames[j].in_app = CurFrames[j].in_app
        /\ (/\ frm <= Len(CurFrames)
            /\ is_some(CurFrames[frm].function)
            /\ CurFrames[frm].in_app # None) =>
              any_in_app' = (any_in_app \/ CurFrames[frm].in_app = Some(TRUE))]_vars

\* A frame given with in_app = true whose function name starts with an
\* exclude prefix, and one given with in_app = false whose function name
\* starts with an include prefix, both classified with their flags kept;
\* any_in_app was set by the first
C9_Witness ==
    /\ pc = "classify" /\ frm = 3 /\ any_in_app
    /\ Len(CurFrames) = 2
    /\ OrigFrames(exc)[1].in_app = Some(TRUE)
    /\ OrigFrames(exc)[2].in_app = Some(FALSE)
    /\ CurFrames[1].in_app = Some(TRUE)
    /\ CurFrames[2].in_app = Some(FALSE)
    /\ is_some(CurFrames[1].function) /\ ExcludeMatch(CurFrames[1].function[1])
    /\ is_some(CurFrames[2].function) /\ IncludeMatch(CurFrames[2].function[1])

----------------------------------------------------------------------------
(* C10 *)

\* C10: in a classified stacktrace, if some frame still has its in_app flag
\* unset then some frame has a function name and in_app = true.
C10_UnsetImpliesInApp ==
    \A i \in 1..Len(event0.exceptions) :
        Classified(i) =>
            ((\E j \in 1..Len(NowFrames(i)) : NowFrames(i)[j].in_app = None)
                => \E j \in 1..Len(NowFrames(i)) : NamedInApp(NowFrames(i)[j]))

\* A prepared stacktrace with no frame that has a function name and in_app =
\* true: the flag of its frame without a function name was unset and is set
C10_Witness ==
    /\ pc = "done"
    /\ Len(event0.exceptions) = 1 /\ HasTrace(1)
    /\ LET orig == OrigFrames(1)
           now == NowFrames(1)
       IN  /\ Len(now) = 2
           /\ \A j \in 1..2 : ~NamedInApp(now[j])
           /\ is_none(orig[1].function) /\ orig[1].in_app = None
           /\ now[1].in_app = Some(TRUE)
           /\ is_some(orig[2].function) /\ orig[2].in_app = None
           /\ now[2].in_app = Some(FALSE)

====
